---- MODULE Spec2Model ----
(***************************************************************************)
(* The time bar of crock (PlexSheep/crock): the anchor last_reset, the     *)
(* ratio shown by the bar, the once-only notification and the two-slot     *)
(* frame data, as driven by Clock::run.                                    *)
(*                                                                         *)
(* Time is counted in units of tick_rate (100 ms) since the midnight that  *)
(* starts 2024-01-01, local time.  One wall clock drives Local::now() and  *)
(* Instant::now(): the clock is assumed not to be set back during a run.   *)
(*                                                                         *)
(* clock.rs holds run, setup, timebar_ratio, maybe_reset_since_zero and    *)
(* the render; clock/ui.rs and clock/timebar.rs hold the later Data and    *)
(* TimeBarLength, which know the Timer kind.  The arms of Clock that       *)
(* handle Timer are not among the sources and follow the specification     *)
(* (timebar_len_timer, setup_timer, timer_due, data_type).                 *)
(***************************************************************************)
EXTENDS Integers, Sequences, FiniteSets, TLC

VARIABLES
    cfg,          \* the parsed command line (Clock's flag fields)
    clk,          \* the wall clock
    last_reset,   \* Clock.last_reset : Option<DateTime<Local>>
    did_notify,   \* Clock.did_notify
    uidata,       \* the Data / UiData of run
    last_tick,    \* run's last_tick : Instant
    pc,           \* position of run
    screen,       \* what the last completed render drew
    notify_count, \* how many times Clock::notify was invoked
    reset_log,    \* the resets done by maybe_reset_since_zero, oldest first
    last_call,    \* the last call of maybe_reset_since_zero: its reads of
                  \* Local::now() and last_reset before and after it
    upd_log,      \* the (fdate, ftime) of the last two update() calls
    start,        \* the wall clock when run was entered
    fn_in,        \* argument of the function under test (function specifications)
    fn_out,       \* its result
    exit_ev,      \* the key event run returned on
    notify_failed \* did the call of Clock::notify return an error?

vars == <<cfg, clk, last_reset, did_notify, uidata, last_tick, pc, screen,
          notify_count, reset_log, last_call, upd_log, start, fn_in, fn_out,
          exit_ev, notify_failed>>

----------------------------------------------------------------------------
(* Bounds of the model *)

\* how long a run is followed, in units of 100 ms
Horizon == 32
\* the longest time one loop iteration takes, in units of 100 ms
MaxStep == 2
\* the longest time between two successive reads of Local::now() inside
\* maybe_reset_since_zero, in units of 100 ms
MaxDrift == 1
\* the longest --custom / --countdown duration, in whole seconds
MaxDurSecs == 2
\* the largest number of seconds carried by a Custom / Countup handed to
\* as_secs on its own
MaxSecs == 30
\* how long a run at 10 Hz is followed, in units of 100 ms: past one hour
HzHorizon == 36100

----------------------------------------------------------------------------
(* Option<T> *)

None == <<>>
Some(x) == <<x>>
is_some(o) == o # None
unwrap(o) == o[1]

----------------------------------------------------------------------------
(* Time: chrono's DateTime<Local> and TimeDelta at a resolution of 100 ms *)

\* let tick_rate = Duration::from_millis(100): the unit of time
tick_rate == 1
SEC == 10 * tick_rate
MIN == 60 * SEC
HOUR == 60 * MIN
DAY == 24 * HOUR

\* Timelike::second / minute / hour
second(t) == (t \div SEC) % 60
minute(t) == (t \div MIN) % 60
hour(t) == (t \div HOUR) % 24

\* Timelike::with_second / with_minute / with_hour: only that field changes,
\* the other fields and the sub-second part are kept
with_second(t, v) == t - second(t) * SEC + v * SEC
with_minute(t, v) == t - minute(t) * MIN + v * MIN
with_hour(t, v) == t - hour(t) * HOUR + v * HOUR

\* SubsecRound::round_subsecs(0): to the nearest whole second, halves up
round_subsecs(t) ==
    LET delta_down == t % SEC
        delta_up == SEC - delta_down
    IN  IF delta_down = 0 THEN t
        ELSE IF delta_up <= delta_down THEN t + delta_up
        ELSE t - delta_down

\* DateTime::signed_duration_since
signed_duration_since(a, b) == a - b

\* TimeDelta::num_seconds / num_minutes / num_hours: whole units, toward zero
num_seconds(d) == IF d >= 0 THEN d \div SEC ELSE -((-d) \div SEC)
num_minutes(d) == IF d >= 0 THEN d \div MIN ELSE -((-d) \div MIN)
num_hours(d) == IF d >= 0 THEN d \div HOUR ELSE -((-d) \div HOUR)

\* std::time::Duration::as_secs of a duration held in units of 100 ms
duration_as_secs(d) == d \div SEC

----------------------------------------------------------------------------
(* Formatting: raw_time.naive_local().to_string(), split at the blank *)

Fmt2(n) == IF n < 10 THEN "0" \o ToString(n) ELSE ToString(n)

\* the days of the months of 2024
MonthDays == <<31, 29, 31, 30, 31, 30, 31, 31, 30, 31, 30, 31>>

RECURSIVE MonthOf(_, _)
\* <<month, day of month>> of day-of-year d (0-based), searching from month m
MonthOf(d, m) ==
    IF m = 12 \/ d < MonthDays[m] THEN <<m, d + 1>> ELSE MonthOf(d - MonthDays[m], m + 1)

\* splits[0]: "YYYY-MM-DD"
format_date(t) ==
    LET md == MonthOf(t \div DAY, 1)
    IN  "2024-" \o Fmt2(md[1]) \o "-" \o Fmt2(md[2])

\* splits[1]: "HH:MM:SS" (raw_time has no sub-second part)
format_time(t) ==
    Fmt2(hour(t)) \o ":" \o Fmt2(minute(t)) \o ":" \o Fmt2(second(t))

----------------------------------------------------------------------------
(* TimeBarLength *)

Timer == [tag |-> "Timer", n |-> 0]
Minute == [tag |-> "Minute", n |-> 0]
Hour == [tag |-> "Hour", n |-> 0]
Day == [tag |-> "Day", n |-> 0]
Custom(secs) == [tag |-> "Custom", n |-> secs]
Countup(secs) == [tag |-> "Countup", n |-> secs]

\* as_secs with the minutes of a day for Day
as_secs_day_minutes(len) ==
    CASE len.tag = "Minute" -> 60
      [] len.tag = "Day" -> 24 * 60
      [] len.tag = "Hour" -> 60 * 60
      [] len.tag = "Timer" -> 1
      [] OTHER -> len.n

\* TimeBarLength::as_secs
as_secs(len) ==
    CASE len.tag = "Minute" -> 60
      [] len.tag = "Day" -> 24 * 60 * 60
      [] len.tag = "Hour" -> 60 * 60
      [] len.tag = "Timer" -> 1
      [] OTHER -> len.n

\* the arm of Clock::timebar_len for the --timer flag
timebar_len_timer(c) == IF c.timer THEN Some(Timer) ELSE None

\* timebar_len falling back to the default length instead of None
timebar_len_group_default(c) ==
    IF c.minute THEN Some(Minute)
    ELSE IF c.day THEN Some(Day)
    ELSE IF c.hour THEN Some(Hour)
    ELSE IF is_some(c.countdown) THEN Some(Countup(duration_as_secs(unwrap(c.countdown))))
    ELSE IF is_some(c.custom) THEN Some(Custom(duration_as_secs(unwrap(c.custom))))
    ELSE Some(Minute)

\* Clock::timebar_len for the flags of the group "timebarlen"
timebar_len_group(c) ==
    IF c.minute THEN Some(Minute)
    ELSE IF c.day THEN Some(Day)
    ELSE IF c.hour THEN Some(Hour)
    ELSE IF is_some(c.countdown) THEN Some(Countup(duration_as_secs(unwrap(c.countdown))))
    ELSE IF is_some(c.custom) THEN Some(Custom(duration_as_secs(unwrap(c.custom))))
    ELSE None

\* Clock::timebar_len
timebar_len(c) ==
    IF is_some(timebar_len_timer(c)) THEN timebar_len_timer(c) ELSE timebar_len_group(c)

----------------------------------------------------------------------------
(* f64 ratios: num / den with den > 0, or NaN *)

F(a, b) == [nan |-> FALSE, num |-> a, den |-> b]
NaN == [nan |-> TRUE, num |-> 0, den |-> 1]

\* a = b, a < b, a <= b as f64 (every comparison with NaN is false)
FEq(a, b) == ~a.nan /\ ~b.nan /\ a.num * b.den = b.num * a.den
FLt(a, b) == ~a.nan /\ ~b.nan /\ a.num * b.den < b.num * a.den
FLe(a, b) == ~a.nan /\ ~b.nan /\ a.num * b.den <= b.num * a.den

\* div_clamp with the clamp left out
div_unclamped(since, secs) ==
    IF secs = 0
    THEN IF since = 0 THEN NaN ELSE IF since > 0 THEN F(2, 1) ELSE F(-1, 1)
    ELSE F(since, secs)

\* (since as f64) / (secs as f64), then f64::clamp(0.0, 1.0).  A zero divisor
\* gives +inf, -inf or (0.0 / 0.0) NaN; clamp keeps NaN and cuts the
\* infinities to the ends.
div_clamp(since, secs) ==
    IF secs = 0
    THEN IF since = 0 THEN NaN ELSE IF since > 0 THEN F(1, 1) ELSE F(0, 1)
    ELSE IF since < 0 THEN F(0, secs)
    ELSE IF since > secs THEN F(secs, secs)
    ELSE F(since, secs)

\* Clock::timebar_ratio
timebar_ratio(c, lr, current_time) ==
    LET len == timebar_len(c)
    IN  IF len = None THEN None
        ELSE LET since == num_seconds(signed_duration_since(current_time, unwrap(lr)))
             IN  Some(div_clamp(since, as_secs(unwrap(len))))

\* (ratio - 1.0).abs() < 0.000_001
\* (|den - num| / den < 1 / 1000000, without leaving 32 bits)
near_one(r) ==
    LET diff == IF r.den >= r.num THEN r.den - r.num ELSE r.num - r.den
    IN  ~r.nan /\ diff <= (r.den - 1) \div 1000000

----------------------------------------------------------------------------
(* Data: the two-slot frame data (slots 0 and 1).  It is the UiData of     *)
(* clock.rs with the timestamp now, the kind and started_at added; run     *)
(* hands raw_time to update as now.                                        *)

\* the strings of a slot that was never written
NoStrings == [fdate |-> "", ftime |-> ""]

\* Data::new
new_data(timebar_type, now) ==
    [now |-> [i \in 0..1 |-> 0],
     fdate |-> [i \in 0..1 |-> ""],
     ftime |-> [i \in 0..1 |-> ""],
     timebar_ratio |-> [i \in 0..1 |-> None],
     timebar_type |-> timebar_type,
     started_at |-> round_subsecs(now),
     idx |-> 0]

\* Data::update (idx ^= 1, then the slot idx is written)
update(d, now, fdate, ftime, ratio) ==
    LET i == 1 - d.idx
    IN  [d EXCEPT !.idx = i,
                  !.now[i] = now,
                  !.fdate[i] = fdate,
                  !.ftime[i] = ftime,
                  !.timebar_ratio[i] = ratio]

\* changed that also compares the ratios of the two slots
changed_with_ratio(d) ==
    \/ d.fdate[0] # d.fdate[1]
    \/ d.ftime[0] # d.ftime[1]
    \/ d.timebar_ratio[0] # d.timebar_ratio[1]

\* Data::changed
changed(d) == d.fdate[0] # d.fdate[1] \/ d.ftime[0] # d.ftime[1]

\* Data::fdate, Data::ftime, Data::now
data_fdate(d) == d.fdate[d.idx]
data_ftime(d) == d.ftime[d.idx]
data_now(d) == d.now[d.idx]

\* a Data::timebar_ratio that hands out the stored ratio for every kind
data_timebar_ratio_stored(d) == d.timebar_ratio[d.idx]

\* Data::timebar_ratio
data_timebar_ratio(d) ==
    IF d.timebar_type = Timer THEN Some(F(0, 1)) ELSE d.timebar_ratio[d.idx]

\* timebarw_label: the end of the window the label shows ("-> HH:MM:SS"), from
\* the anchor rounded to the second; format(TIME_FORMAT) is "%H:%M:%S"
until(len, lr) ==
    LET last_reset_r == round_subsecs(lr)
        from == IF len.tag \in {"Custom", "Countup"} THEN last_reset_r
                ELSE with_second(last_reset_r, 0)
    IN  format_time(from + as_secs(len) * SEC)

\* the TimeBarLength run hands to Data::new
data_type(c) == IF is_some(timebar_len(c)) THEN unwrap(timebar_len(c)) ELSE Minute

----------------------------------------------------------------------------
(* The anchor: setup_last_reset and maybe_reset_since_zero *)

\* the arm of setup_last_reset for Timer
setup_timer(now) == Some(now)

\* a setup that also sets an anchor when no kind is configured
setup_last_reset_always(c, lr, now) ==
    LET len == timebar_len(c)
    IN  IF len = None THEN Some(now)
        ELSE IF unwrap(len).tag = "Minute" THEN Some(with_second(now, 0))
        ELSE IF unwrap(len).tag = "Hour" THEN Some(with_minute(now, 0))
        ELSE IF unwrap(len).tag = "Day" THEN Some(with_hour(now, 0))
        ELSE Some(now)

\* a setup whose arm for Countup sets no anchor
setup_last_reset_no_countup(c, lr, now) ==
    LET len == timebar_len(c)
    IN  IF len = None THEN lr
        ELSE CASE unwrap(len).tag = "Custom" -> Some(now)
               [] unwrap(len).tag = "Countup" -> lr
               [] unwrap(len).tag = "Minute" -> Some(with_second(now, 0))
               [] unwrap(len).tag = "Hour" -> Some(with_minute(now, 0))
               [] unwrap(len).tag = "Day" -> Some(with_hour(now, 0))
               [] unwrap(len).tag = "Timer" -> setup_timer(now)

\* Clock::setup_last_reset: the new last_reset
setup_last_reset(c, lr, now) ==
    LET len == timebar_len(c)
    IN  IF len = None THEN lr
        ELSE CASE unwrap(len).tag \in {"Custom", "Countup"} -> Some(now)
               [] unwrap(len).tag = "Minute" -> Some(with_second(now, 0))
               [] unwrap(len).tag = "Hour" -> Some(with_minute(now, 0))
               [] unwrap(len).tag = "Day" -> Some(with_hour(now, 0))
               [] unwrap(len).tag = "Timer" -> setup_timer(now)

\* the conditions of the arms of maybe_reset_since_zero; since is
\* since_last_reset, now2 the Local::now() of the second conjunct
\* custom_due with a guard of one tick in place of one whole second
custom_due_tick_guard(len, since) == since >= tick_rate /\ num_seconds(since) >= as_secs(len)
custom_due(len, since) == num_seconds(since) >= 1 /\ num_seconds(since) >= as_secs(len)
\* minute_due without the guard of one elapsed second
minute_due_unguarded(since, now2) == second(now2) = 0
\* minute_due with the guard of the Hour arm, one elapsed minute
minute_due_whole_minute(since, now2) == num_minutes(since) >= 1 /\ second(now2) = 0
minute_due(since, now2) == num_seconds(since) >= 1 /\ second(now2) = 0
hour_due(since, now2) == num_minutes(since) >= 1 /\ minute(now2) = 0
\* day_due without the guard of one elapsed hour
day_due_unguarded(since, now2) == hour(now2) = 0
day_due(since, now2) == num_hours(since) >= 1 /\ hour(now2) = 0

\* a Countup arm that resets as the Custom arm does
countup_due_as_custom(len, since) == custom_due(len, since)

\* the arm for Countup: "the count up should not reset"
countup_due(len, since) == FALSE

\* the arm for Timer
timer_due(since) == FALSE

\* does maybe_reset_since_zero assign last_reset?  now1 is the Local::now() of
\* since_last_reset
reset_due(c, lr, now1, now2) ==
    LET len == timebar_len(c)
        since == signed_duration_since(now1, unwrap(lr))
    IN  /\ is_some(len)
        /\ CASE unwrap(len).tag = "Countup" -> countup_due(unwrap(len), since)
             [] unwrap(len).tag = "Custom" -> custom_due(unwrap(len), since)
             [] unwrap(len).tag = "Minute" -> minute_due(since, now2)
             [] unwrap(len).tag = "Hour" -> hour_due(since, now2)
             [] unwrap(len).tag = "Day" -> day_due(since, now2)
             [] unwrap(len).tag = "Timer" -> timer_due(since)

\* is Local::now() read again for the second conjunct of the arm?
reads_now2(c, lr, now1) ==
    LET len == timebar_len(c)
        since == signed_duration_since(now1, unwrap(lr))
    IN  /\ is_some(len)
        /\ CASE unwrap(len).tag = "Minute" -> num_seconds(since) >= 1
             [] unwrap(len).tag = "Hour" -> num_minutes(since) >= 1
             [] unwrap(len).tag = "Day" -> num_hours(since) >= 1
             [] OTHER -> FALSE

\* an anchor with the sub-second part cleared
new_anchor_cleared(now3) == Some(now3 - (now3 % SEC))

\* an anchor rounded to the nearest second
new_anchor_rounded(now3) == Some(round_subsecs(now3))

\* self.last_reset = Some(Local::now()): now3 is that Local::now()
new_anchor(now3) == Some(now3)

\* Clock::maybe_reset_since_zero: the new last_reset
maybe_reset_since_zero(c, lr, now1, now2, now3) ==
    IF reset_due(c, lr, now1, now2) THEN new_anchor(now3) ELSE lr

----------------------------------------------------------------------------
(* The configurations and start times a run is followed from *)

NoFlags ==
    [timer |-> FALSE, minute |-> FALSE, day |-> FALSE, hour |-> FALSE,
     countdown |-> None, custom |-> None]

\* the durations humantime::parse_duration hands over: half a second, and
\* whole seconds
Durations == {SEC \div 2} \cup {k * SEC : k \in 1..MaxDurSecs}

\* at most one of the flags is set
Configs ==
    {NoFlags,
     [NoFlags EXCEPT !.timer = TRUE],
     [NoFlags EXCEPT !.minute = TRUE],
     [NoFlags EXCEPT !.day = TRUE],
     [NoFlags EXCEPT !.hour = TRUE]}
    \cup {[NoFlags EXCEPT !.countdown = Some(d)] : d \in Durations}
    \cup {[NoFlags EXCEPT !.custom = Some(d)] : d \in Durations}

\* day of 2024 (0-based), hour, minute, second, tenth of a second
At(d, h, m, s, f) == d * DAY + h * HOUR + m * MIN + s * SEC + f

StartTimes ==
    {At(58, 23, 59, 58, 3),    \* before the end of a minute, an hour and a day
     At(58, 10, 29, 59, 7),    \* before the end of a minute
     At(58, 10, 30, 0, 2),     \* inside second 0 of a minute
     At(58, 10, 29, 30, 0)}    \* on the stroke of second 30 of a minute

\* the events poll / event::read deliver; "none" is poll timing out
Events ==
    {[kind |-> "none", code |-> "", ctrl |-> FALSE],
     [kind |-> "resize", code |-> "", ctrl |-> FALSE],
     [kind |-> "key", code |-> "q", ctrl |-> FALSE],
     [kind |-> "key", code |-> "Esc", ctrl |-> FALSE],
     [kind |-> "key", code |-> "c", ctrl |-> TRUE],
     [kind |-> "key", code |-> "c", ctrl |-> FALSE]}

\* the exit chord test of run
is_exit(ev) ==
    /\ ev.kind = "key"
    /\ (ev.code = "q" \/ ev.code = "Esc" \/ (ev.ctrl /\ ev.code = "c"))

----------------------------------------------------------------------------
(* Clock::run *)

Init ==
    /\ cfg \in Configs
    /\ clk \in StartTimes
    /\ start = clk
    /\ last_reset = None
    /\ did_notify = FALSE
    /\ uidata = new_data(data_type(cfg), clk)
    /\ last_tick = clk
    /\ pc = "setup"
    /\ screen = None
    /\ notify_count = 0
    /\ reset_log = <<>>
    /\ last_call = None
    /\ upd_log = <<NoStrings, NoStrings>>
    /\ fn_in = None
    /\ fn_out = None
    /\ exit_ev = None
    /\ notify_failed = FALSE

\* does setup_last_reset take the arm of a kind that truncates now with
\* with_second / with_minute / with_hour?
truncates(c) ==
    /\ is_some(timebar_len(c))
    /\ unwrap(timebar_len(c)).tag \in {"Minute", "Hour", "Day"}

\* a truncation whose None is passed over, leaving last_reset as it was
truncation_ignored(c, ok) == FALSE

\* .expect("tried to use a time that does not exist") on the Option of
\* with_second / with_minute / with_hour: a panic when the local time they
\* make does not exist (ok is false)
truncation_aborts(c, ok) == truncates(c) /\ ~ok

\* self.setup()?; ok: does the truncated local time exist?
Setup ==
    /\ pc = "setup"
    /\ \E ok \in BOOLEAN :
        /\ ~truncates(cfg) => ok
        /\ IF truncation_aborts(cfg, ok)
           THEN /\ pc' = "setup_panicked"
                /\ last_reset' = last_reset
           ELSE /\ last_reset' = IF ok THEN setup_last_reset(cfg, last_reset, clk)
                                 ELSE last_reset
                /\ pc' = "frame"
    /\ UNCHANGED <<cfg, clk, did_notify, uidata, last_tick, screen, notify_count,
                   reset_log, last_call, upd_log, start, fn_in, fn_out,
                   exit_ev, notify_failed>>

\* the head of the loop: raw_time, splits and uidata.update(..)
Frame ==
    /\ pc = "frame"
    /\ LET raw_time == round_subsecs(clk)
           fdate == format_date(raw_time)
           ftime == format_time(raw_time)
       IN  /\ uidata' = update(uidata, raw_time, fdate, ftime,
                               timebar_ratio(cfg, last_reset, raw_time + SEC))
           /\ upd_log' = <<upd_log[2], [fdate |-> fdate, ftime |-> ftime]>>
    /\ pc' = IF changed(uidata') THEN "render" ELSE "poll"
    /\ UNCHANGED <<cfg, clk, last_reset, did_notify, last_tick, screen, notify_count,
                   reset_log, last_call, start, fn_in, fn_out,
                   exit_ev, notify_failed>>

\* a gate that does not look at did_notify
gate_unlatched(c, notified, ratio) ==
    /\ near_one(ratio)
    /\ is_some(timebar_len(c))
    /\ unwrap(timebar_len(c)).tag = "Countup"

\* a gate that does not look at the kind
gate_any_kind(c, notified, ratio) == ~notified /\ near_one(ratio)

\* a gate that matches the Custom kind in place of Countup
gate_wrong_kind(c, notified, ratio) ==
    /\ ~notified
    /\ near_one(ratio)
    /\ is_some(timebar_len(c))
    /\ unwrap(timebar_len(c)).tag = "Custom"

\* the gate of the time bar: does this render call notify()?
gate(c, notified, ratio) ==
    /\ ~notified
    /\ near_one(ratio)
    /\ is_some(timebar_len(c))
    /\ unwrap(timebar_len(c)).tag = "Countup"

\* LineGauge::ratio asserts that the ratio is between 0 and 1
gauge_accepts(ratio) == FLe(F(0, 1), ratio) /\ FLe(ratio, F(1, 1))

\* what a completed draw leaves on the terminal: the big clock (ftime), the
\* small date (fdate) and the time bar, if there is one
drawn(d, timebarw) == Some([fdate |-> data_fdate(d), ftime |-> data_ftime(d), timebarw |-> timebarw])

\* a call of notify whose error goes up as a panic
notify_unwrapped(ok) == ~ok

\* does the outcome of self.notify() end the render? `let _ = ..inspect_err(..)`
\* logs the error and drops it
notify_aborts(ok) == FALSE

\* Clock::ui / timebarw with a draw that succeeds; ok is the outcome of
\* self.notify(); the panic of LineGauge::ratio ends the run
Render ==
    /\ pc = "render"
    /\ \E ok \in BOOLEAN :
        IF is_some(timebar_len(cfg))
        THEN LET ratio == unwrap(data_timebar_ratio(uidata))
                 fire == gate(cfg, did_notify, ratio)
                 abort == fire /\ notify_aborts(ok)
             IN  /\ ~fire => ok
                 /\ did_notify' = (did_notify \/ (fire /\ ~abort))
                 /\ notify_count' = IF fire THEN notify_count + 1 ELSE notify_count
                 /\ notify_failed' = (notify_failed \/ (fire /\ ~ok))
                 /\ IF ~abort /\ gauge_accepts(ratio)
                    THEN /\ screen' = drawn(uidata, Some([ratio |-> ratio, alert |-> did_notify']))
                         /\ pc' = "poll"
                    ELSE /\ screen' = screen
                         /\ pc' = "panicked"
        ELSE /\ ok
             /\ screen' = drawn(uidata, None)
             /\ pc' = "poll"
             /\ UNCHANGED <<did_notify, notify_count, notify_failed>>
    /\ UNCHANGED <<cfg, clk, last_reset, uidata, last_tick, reset_log, last_call,
                   upd_log, start, fn_in, fn_out, exit_ev>>

\* self.ui(terminal, &uidata)? with a terminal.draw that returns an error: run
\* returns it, and the Clock it consumed is gone
RenderFails ==
    /\ pc = "render"
    /\ pc' = "draw_failed"
    /\ UNCHANGED <<cfg, clk, last_reset, did_notify, uidata, last_tick, screen,
                   notify_count, reset_log, last_call, upd_log, start, fn_in, fn_out,
                   exit_ev, notify_failed>>

\* poll(timeout) returns after d, while the run is followed up to h: on an
\* event, or with "none" once the timeout (tick_rate less last_tick.elapsed())
\* has run out
polled(d, ev, h) ==
    /\ pc = "poll"
    /\ clk + d - start <= h
    /\ ev.kind = "none" => clk + d - last_tick >= tick_rate

\* poll(timeout)? or event::read()? returns an error: run returns it, and the
\* wall clock is not read again
PollFails ==
    /\ pc = "poll"
    /\ pc' = "poll_failed"
    /\ UNCHANGED <<cfg, clk, last_reset, did_notify, uidata, last_tick, screen,
                   notify_count, reset_log, last_call, upd_log, start, fn_in, fn_out,
                   exit_ev, notify_failed>>

\* an exit chord: return Ok(()); the wall clock is not read again
PollExit ==
    \E ev \in Events :
        /\ polled(0, ev, Horizon)
        /\ is_exit(ev)
        /\ exit_ev' = Some(ev)
        /\ pc' = "done"
        /\ UNCHANGED <<cfg, clk, last_reset, did_notify, uidata, last_tick, screen,
                       notify_count, reset_log, last_call, upd_log, start, fn_in, fn_out,
                       notify_failed>>

\* no exit chord and last_tick.elapsed() < tick_rate: the next iteration
PollNoTick ==
    \E d \in 0..MaxStep, ev \in Events :
        /\ polled(d, ev, Horizon)
        /\ ~is_exit(ev)
        /\ clk + d - last_tick < tick_rate
        /\ clk' = clk + d
        /\ pc' = "frame"
        /\ UNCHANGED <<cfg, last_reset, did_notify, uidata, last_tick, screen,
                       notify_count, reset_log, last_call, upd_log, start, fn_in, fn_out,
                       exit_ev, notify_failed>>

\* no exit chord and last_tick.elapsed() >= tick_rate: on_tick(), that is
\* maybe_reset_since_zero(), whose reads of Local::now() are e2 and e3 apart,
\* then last_tick = Instant::now()
Tick(d, ev, e2, e3, h) ==
    LET now1 == clk + d
        now2 == now1 + e2
        now3 == now2 + e3
    IN  /\ polled(d, ev, h)
        /\ ~is_exit(ev)
        /\ now1 - last_tick >= tick_rate
        /\ now3 - start <= h
        /\ e2 > 0 => reads_now2(cfg, last_reset, now1)
        /\ e3 > 0 => reset_due(cfg, last_reset, now1, now2)
        /\ last_reset' = maybe_reset_since_zero(cfg, last_reset, now1, now2, now3)
        /\ reset_log' = IF reset_due(cfg, last_reset, now1, now2)
                        THEN Append(reset_log, [chk |-> now2, at |-> now3])
                        ELSE reset_log
        /\ last_call' = Some([now1 |-> now1, now2 |-> now2, now3 |-> now3,
                               before |-> last_reset, after |-> last_reset'])
        /\ clk' = now3
        /\ last_tick' = now3
        /\ pc' = "frame"
        /\ UNCHANGED <<cfg, did_notify, uidata, screen, notify_count, upd_log,
                       start, fn_in, fn_out, exit_ev, notify_failed>>

PollTick ==
    \E d \in 0..MaxStep, ev \in Events, e2 \in 0..MaxDrift, e3 \in 0..MaxDrift :
        Tick(d, ev, e2, e3, Horizon)

Next ==
    \/ Setup
    \/ Frame
    \/ Render
    \/ RenderFails
    \/ PollFails
    \/ PollExit
    \/ PollNoTick
    \/ PollTick

Spec == Init /\ [][Next]_vars

----------------------------------------------------------------------------
(* Clock::run left alone for more than an hour: no event arrives, nothing
   fails, and every poll times out after tick_rate (10 Hz) *)

HzConfigs == {[NoFlags EXCEPT !.hour = TRUE], [NoFlags EXCEPT !.day = TRUE]}

InitHz == Init /\ cfg \in HzConfigs

\* poll times out after tick_rate, and the reads of Local::now() inside one
\* call of maybe_reset_since_zero fall into the same 100 ms
PollTickHz == Tick(tick_rate, [kind |-> "none", code |-> "", ctrl |-> FALSE], 0, 0, HzHorizon)

NextHz == Setup \/ Frame \/ Render \/ PollTickHz

SpecHz == InitHz /\ [][NextHz]_vars

----------------------------------------------------------------------------
(* Clock::run with a --countdown of whole seconds, while the loop keeps
   iterating: no exit chord, no I/O error, and the wall clock advances as long
   as the run is followed *)

InitLive ==
    /\ Init
    /\ is_some(cfg.countdown)
    /\ duration_as_secs(unwrap(cfg.countdown)) >= 1

\* an iteration during which the wall clock has advanced
Advance == PollTick /\ clk' > clk

NextLive == Setup \/ Frame \/ Render \/ PollNoTick \/ PollTick

SpecLive == InitLive /\ [][NextLive]_vars /\ WF_vars(NextLive) /\ SF_vars(Advance)

----------------------------------------------------------------------------
(* Clock::run with --minute and iterations of up to one second, as long as
   every wall-clock second sees a call of maybe_reset_since_zero *)

InitMinute == Init /\ cfg.minute

\* the wall-clock second t lies in
wall_second(t) == t \div SEC

\* has the second the wall clock is in seen a whole call of
\* maybe_reset_since_zero?  (the second the process started in counts)
second_served ==
    is_some(last_call) => wall_second(unwrap(last_call).now1) = wall_second(clk)

\* the call that reads Local::now() from now1 to now3 leaves no wall-clock
\* second without a call: it lies in the current second, or in the next one
\* when the current one has had its call, or it begins in the current one,
\* which has had its call, and ends in the next
every_second_invoked(now1, now3) ==
    \/ /\ wall_second(now3) = wall_second(now1)
       /\ \/ wall_second(now1) = wall_second(clk)
          \/ wall_second(now1) = wall_second(clk) + 1 /\ second_served
    \/ /\ wall_second(now3) = wall_second(now1) + 1
       /\ wall_second(now1) = wall_second(clk)
       /\ second_served

\* on_tick() after an iteration of up to one second, poll timing out (an
\* event that is no exit chord leads to the same call)
PollTickSecond ==
    \E d \in tick_rate..SEC, e2 \in 0..MaxDrift, e3 \in 0..MaxDrift :
        /\ every_second_invoked(clk + d, clk + d + e2 + e3)
        /\ Tick(d, [kind |-> "none", code |-> "", ctrl |-> FALSE], e2, e3, Horizon)

NextMinute == Setup \/ Frame \/ Render \/ PollNoTick \/ PollTickSecond

SpecMinute == InitMinute /\ [][NextMinute]_vars

----------------------------------------------------------------------------
(* Clock::timebar_ratio and Data::timebar_ratio on chosen arguments *)

\* a start of a minute
Anchor0 == At(58, 10, 30, 0, 0)

\* anchors: a start of a minute, and one with a sub-second part
RatioAnchors == {Anchor0, Anchor0 + 3}

\* current_time - anchor, in whole seconds and tenths: before the anchor,
\* inside the windows, at their ends and far beyond them
RatioSecs == {-61, -2, -1, 0, 1, 2, 3, 30, 59, 60, 61, 3599, 3600, 3601, 86399, 86400, 90000}
RatioTimes == {Anchor0 + k * SEC + f : k \in RatioSecs, f \in {0, 3, 5}}

InitRatio ==
    /\ cfg \in Configs
    /\ last_reset \in IF is_some(timebar_len(cfg)) THEN {Some(a) : a \in RatioAnchors} ELSE {None}
    /\ fn_in \in {Some(t) : t \in RatioTimes}
    /\ fn_out = None
    /\ exit_ev = None
    /\ notify_failed = FALSE
    /\ pc = "ratio"
    /\ clk = 0
    /\ start = 0
    /\ did_notify = FALSE
    /\ uidata = new_data(data_type(cfg), 0)
    /\ last_tick = 0
    /\ screen = None
    /\ notify_count = 0
    /\ reset_log = <<>>
    /\ last_call = None
    /\ upd_log = <<NoStrings, NoStrings>>

\* self.timebar_ratio(current_time), stored by update and read back through
\* Data::timebar_ratio
ApplyRatio ==
    /\ pc = "ratio"
    /\ LET current_time == unwrap(fn_in)
           r == timebar_ratio(cfg, last_reset, current_time)
       IN  /\ uidata' = update(uidata, current_time, "", "", r)
           /\ fn_out' = Some([ratio |-> r, shown |-> data_timebar_ratio(uidata')])
    /\ pc' = "ratio_done"
    /\ UNCHANGED <<cfg, clk, last_reset, did_notify, last_tick, screen, notify_count,
                   reset_log, last_call, upd_log, start, fn_in,
                   exit_ev, notify_failed>>

NextRatio == ApplyRatio

SpecRatio == InitRatio /\ [][NextRatio]_vars

----------------------------------------------------------------------------
(* Data::update and Data::changed on any sequence of updates *)

DataTimes == {At(58, 10, 30, 0, 0), At(58, 10, 30, 1, 0), At(59, 10, 30, 0, 0)}
DataNows == {At(58, 10, 30, 0, 0), At(58, 10, 30, 0, 4)}
DataRatios == {None, Some(F(0, 60)), Some(F(60, 60))}

InitData ==
    /\ cfg \in {NoFlags, [NoFlags EXCEPT !.minute = TRUE]}
    /\ uidata = new_data(data_type(cfg), 0)
    /\ upd_log = <<NoStrings, NoStrings>>
    /\ pc = "data"
    /\ clk = 0
    /\ start = 0
    /\ last_reset = None
    /\ did_notify = FALSE
    /\ last_tick = 0
    /\ screen = None
    /\ notify_count = 0
    /\ reset_log = <<>>
    /\ last_call = None
    /\ fn_in = None
    /\ fn_out = None
    /\ exit_ev = None
    /\ notify_failed = FALSE

\* uidata.update(now, fdate, ftime, ratio), then uidata.changed()
DataUpdate ==
    \E t \in DataTimes, now \in DataNows, ratio \in DataRatios :
        /\ pc = "data"
        /\ uidata' = update(uidata, now, format_date(t), format_time(t), ratio)
        /\ upd_log' = <<upd_log[2], [fdate |-> format_date(t), ftime |-> format_time(t)]>>
        /\ fn_out' = Some(changed(uidata'))
        /\ UNCHANGED <<cfg, clk, last_reset, did_notify, last_tick, pc, screen,
                       notify_count, reset_log, last_call, start, fn_in,
                   exit_ev, notify_failed>>

NextData == DataUpdate

SpecData == InitData /\ [][NextData]_vars

----------------------------------------------------------------------------
(* TimeBarLength::as_secs on every kind *)

SecsValues == 0..MaxSecs

Lengths ==
    {Timer, Minute, Hour, Day}
    \cup {Custom(n) : n \in SecsValues}
    \cup {Countup(n) : n \in SecsValues}

InitSecs ==
    /\ fn_in \in {Some(len) : len \in Lengths}
    /\ fn_out = None
    /\ pc = "secs"
    /\ cfg = NoFlags
    /\ uidata = new_data(Minute, 0)
    /\ upd_log = <<NoStrings, NoStrings>>
    /\ clk = 0
    /\ start = 0
    /\ last_reset = None
    /\ did_notify = FALSE
    /\ last_tick = 0
    /\ screen = None
    /\ notify_count = 0
    /\ reset_log = <<>>
    /\ last_call = None
    /\ exit_ev = None
    /\ notify_failed = FALSE

\* len.as_secs()
ApplySecs ==
    /\ pc = "secs"
    /\ fn_out' = Some(as_secs(unwrap(fn_in)))
    /\ pc' = "secs_done"
    /\ UNCHANGED <<cfg, clk, last_reset, did_notify, uidata, last_tick, screen,
                   notify_count, reset_log, last_call, upd_log, start, fn_in,
                   exit_ev, notify_failed>>

NextSecs == ApplySecs

SpecSecs == InitSecs /\ [][NextSecs]_vars

----------------------------------------------------------------------------
(* The claims *)

\* r is the f64 0.0 / the f64 1.0 / a number of [0.0, 1.0]
is_zero(r) == ~r.nan /\ r.num = 0
is_one(r) == ~r.nan /\ r.num = r.den
in_unit(r) == ~r.nan /\ 0 <= r.num /\ r.num <= r.den

\* setup has completed
after_setup == pc \notin {"setup", "setup_panicked"}

\* the kind of the run, or "None"
kind == IF is_some(timebar_len(cfg)) THEN unwrap(timebar_len(cfg)).tag ELSE "None"

\* C1: for every kind and every pair (current_time, last_reset), the ratio
\* timebar_ratio returns, and the one Data hands to the render, is a number in
\* the closed interval [0.0, 1.0].
C1_RatioInUnit ==
    (pc = "ratio_done" /\ is_some(unwrap(fn_out).ratio)) =>
        /\ in_unit(unwrap(unwrap(fn_out).ratio))
        /\ in_unit(unwrap(unwrap(fn_out).shown))

\* w is the signed difference d in whole seconds (cut toward zero)
whole_seconds(d, w) ==
    \/ d >= 0 /\ w * SEC <= d /\ d < (w + 1) * SEC
    \/ d < 0 /\ w <= 0 /\ (-w) * SEC <= -d /\ -d < (1 - w) * SEC

\* C2: the ratio is clamp(whole_seconds(current_time - last_reset) / as_secs,
\* 0, 1): 0 up to the first whole second, 1 from as_secs whole seconds on, and
\* the whole seconds over as_secs in between (with the f64 quotient of a zero
\* divisor: 1 for whole seconds > 0, 0 for < 0, NaN for 0); for Minute with the
\* anchor at the start of a minute, 0 at +0 s, 0.5 at +30 s, 59/60 at +59 s and
\* 1 at +60 s.
C2_RatioFormula ==
    (pc = "ratio_done" /\ is_some(unwrap(fn_out).ratio)) =>
        LET r == unwrap(unwrap(fn_out).ratio)
            d == unwrap(fn_in) - unwrap(last_reset)
            secs == as_secs(unwrap(timebar_len(cfg)))
        IN  /\ secs > 0 /\ d < SEC => is_zero(r)
            /\ secs > 0 /\ d >= secs * SEC => is_one(r)
            /\ secs > 0 /\ SEC <= d /\ d < secs * SEC =>
                   ~r.nan /\ r.den = secs /\ whole_seconds(d, r.num)
            /\ secs = 0 /\ d >= SEC => is_one(r)
            /\ secs = 0 /\ d <= -SEC => is_zero(r)
            /\ secs = 0 /\ -SEC < d /\ d < SEC => r.nan
            /\ (kind = "Minute" /\ unwrap(last_reset) = Anchor0) =>
                   /\ d = 0 => FEq(r, F(0, 1))
                   /\ d = 30 * SEC => FEq(r, F(1, 2))
                   /\ d = 59 * SEC => FEq(r, F(59, 60))
                   /\ d = 60 * SEC => FEq(r, F(1, 1))

\* C2 witness: Minute, anchor at the start of a minute, current_time 30 s
\* later, ratio 0.5
C2_Witness ==
    /\ pc = "ratio_done"
    /\ kind = "Minute"
    /\ last_reset = Some(Anchor0)
    /\ fn_in = Some(Anchor0 + 30 * SEC)
    /\ FEq(unwrap(unwrap(fn_out).ratio), F(1, 2))

\* C6: changed() is true exactly when the date string or the time string of
\* the last update differs from that of the update before it (the empty
\* strings before the first update); the ratios and timestamps do not count.
C6_ChangedIffStringsDiffer == changed(uidata) <=> upd_log[2] # upd_log[1]

\* C6 witness: two consecutive updates with the same strings, different
\* ratios and different timestamps, and changed() false
C6_Witness ==
    /\ pc = "data"
    /\ upd_log[2] # NoStrings
    /\ upd_log[1] = upd_log[2]
    /\ uidata.timebar_ratio[0] # uidata.timebar_ratio[1]
    /\ uidata.now[0] # uidata.now[1]
    /\ fn_out = Some(FALSE)

\* the ratio the loop computed last (the slot update wrote), and the one of
\* the update before it
loop_ratio == uidata.timebar_ratio[uidata.idx]
prev_ratio == uidata.timebar_ratio[1 - uidata.idx]
full(o) == is_some(o) /\ is_one(unwrap(o))

\* C3: for Countup, once the ratio computed by the loop is 1.0, the ratio
\* computed by every later iteration is 1.0.
C3_CountupStaysFull == [][(kind = "Countup" /\ full(loop_ratio)) => full(loop_ratio')]_vars

\* C3 witness: two frames of different seconds both computed 1.0, and
\* maybe_reset_since_zero ran after the first of them (a frame is taken at
\* most half a second after the second it shows)
C3_Witness ==
    /\ kind = "Countup"
    /\ full(loop_ratio)
    /\ full(prev_ratio)
    /\ uidata.now[1 - uidata.idx] < uidata.now[uidata.idx]
    /\ is_some(last_call)
    /\ 2 * (unwrap(last_call).now1 - uidata.now[1 - uidata.idx]) >= SEC

\* C4: for Minute, no two changes of last_reset by maybe_reset fall into the
\* same second 0 of a minute.
C4_MinuteOneResetPerWindow ==
    kind = "Minute" =>
        \A i, j \in 1..Len(reset_log) :
            (i < j /\ second(reset_log[i].at) = 0) =>
                reset_log[i].at \div SEC # reset_log[j].at \div SEC

\* C4 witness: a reset in second 0, and a later call of maybe_reset in that
\* same second, which left last_reset alone
C4_Witness ==
    /\ kind = "Minute"
    /\ Len(reset_log) = 1
    /\ second(reset_log[1].at) = 0
    /\ is_some(last_call)
    /\ unwrap(last_call).now1 > reset_log[1].at
    /\ unwrap(last_call).now3 \div SEC = reset_log[1].at \div SEC
    /\ unwrap(last_call).after = unwrap(last_call).before

\* C5: did_notify starts false, never goes back to false once true, and
\* notify is invoked at most once: exactly when did_notify is set.
C5_NotifyOnce ==
    /\ did_notify = FALSE
    /\ [][did_notify => did_notify']_vars
    /\ [](notify_count = IF did_notify THEN 1 ELSE 0)

\* C5 witness: after the notification, a frame of a later second, again with
\* ratio 1.0, has been rendered, and notify was still invoked once
C5_Witness ==
    /\ pc = "poll"
    /\ kind = "Countup"
    /\ did_notify
    /\ notify_count = 1
    /\ full(prev_ratio)
    /\ near_one(unwrap(loop_ratio))
    /\ changed(uidata)
    /\ is_some(screen)
    /\ unwrap(screen).ftime = data_ftime(uidata)

C8_NotifyOnlyCountup ==
    /\ [](kind # "Countup" => (~did_notify /\ notify_count = 0))
    /\ [][did_notify' # did_notify =>
            /\ pc = "render"
            /\ kind = "Countup"
            /\ ~did_notify
            /\ near_one(unwrap(data_timebar_ratio(uidata)))]_vars

\* C8 witness: a Minute bar rendered with ratio exactly 1.0, not notified
C8_Witness ==
    /\ kind = "Minute"
    /\ is_some(screen)
    /\ is_some(unwrap(screen).timebarw)
    /\ is_one(unwrap(unwrap(screen).timebarw).ratio)
    /\ ~unwrap(unwrap(screen).timebarw).alert
    /\ ~did_notify

\* C9: for Countup and Timer, no step after setup changes last_reset.
C9_CountupTimerNeverReset ==
    [][(kind \in {"Countup", "Timer"} /\ pc # "setup") => last_reset' = last_reset]_vars

\* C9 witness: Countup, a call of maybe_reset_since_zero made when the whole
\* duration (and a second) had elapsed, the anchor still the one of setup
C9_Witness ==
    /\ kind = "Countup"
    /\ is_some(last_call)
    /\ unwrap(last_call).now1 - unwrap(last_reset) >= SEC
    /\ unwrap(last_call).now1 - unwrap(last_reset) >= as_secs(unwrap(timebar_len(cfg))) * SEC
    /\ last_reset = Some(start)

\* the condition of the Minute arm on the reads of a call
C10_due(c) == second(c.now2) = 0 /\ c.now1 - unwrap(c.before) >= SEC

\* C10 as stated: for Minute, maybe_reset changes last_reset exactly when the
\* second of now is 0 and a whole second has elapsed since last_reset, and the
\* new anchor is now with the sub-second part cleared.
C10_Original ==
    (kind = "Minute" /\ is_some(last_call)) =>
        LET c == unwrap(last_call)
        IN  /\ c.after # c.before <=> C10_due(c)
            /\ C10_due(c) => c.after = Some(c.now3 - (c.now3 % SEC))
            /\ ~C10_due(c) => c.after = c.before

\* C10 amended: for Minute, maybe_reset changes last_reset exactly when the
\* second of now is 0 and a whole second has elapsed since last_reset, and the
\* new anchor is now as read for the assignment, sub-second part included.
C10_MinuteReset ==
    (kind = "Minute" /\ is_some(last_call)) =>
        LET c == unwrap(last_call)
        IN  /\ c.after # c.before <=> C10_due(c)
            /\ C10_due(c) => c.after = Some(c.now3)
            /\ ~C10_due(c) => c.after = c.before

\* C10 witness: a Minute reset whose new anchor has a sub-second part
C10_Witness ==
    /\ kind = "Minute"
    /\ is_some(last_call)
    /\ unwrap(last_call).after # unwrap(last_call).before
    /\ unwrap(last_call).after = last_reset
    /\ unwrap(last_reset) % SEC # 0

\* the resets of a run lie more than d apart
resets_apart(d) ==
    \A i \in 1..Len(reset_log) : \A j \in 1..Len(reset_log) :
        i < j => reset_log[j].at - reset_log[i].at > d

one_reset_per(w) ==
    \A i \in 1..Len(reset_log) : \A j \in 1..Len(reset_log) :
        i < j => reset_log[i].at \div w # reset_log[j].at \div w

\* C12: for Hour, maybe_reset resets (to now) exactly when the minute of now is
\* 0 and at least one whole minute has elapsed since last_reset; for Day,
\* exactly when the hour of now is 0 and at least one whole hour has elapsed;
\* called at 10 Hz it resets at most once per hour (Hour) and at most once per
\* day (Day), whatever the start time.
C12_HourDayReset ==
    /\ (kind = "Hour" /\ is_some(last_call)) =>
           LET c == unwrap(last_call)
               due == minute(c.now2) = 0 /\ c.now1 - unwrap(c.before) >= MIN
           IN  /\ c.after = (IF due THEN Some(c.now3) ELSE c.before)
               /\ c.after # c.before <=> due
    /\ (kind = "Day" /\ is_some(last_call)) =>
           LET c == unwrap(last_call)
               due == hour(c.now2) = 0 /\ c.now1 - unwrap(c.before) >= HOUR
           IN  /\ c.after = (IF due THEN Some(c.now3) ELSE c.before)
               /\ c.after # c.before <=> due
    /\ kind = "Hour" => one_reset_per(HOUR)
    /\ kind = "Day" => one_reset_per(DAY)

\* C12 witness: a Day bar was reset at midnight, the calls went on at 10 Hz
\* through the whole of hour 0 and into hour 1, and none of them reset again
C12_Witness ==
    /\ kind = "Day"
    /\ Len(reset_log) = 1
    /\ hour(reset_log[1].at) = 0
    /\ is_some(last_call)
    /\ hour(unwrap(last_call).now1) = 1
    /\ unwrap(last_call).now1 - reset_log[1].at >= HOUR
    /\ unwrap(last_call).after = Some(reset_log[1].at)

\* C13: setup for Hour sets last_reset to the start of the current hour
\* (minute 0 and second 0), setup for Day to the start of the current day
\* (hour 0, minute 0 and second 0), for every start time; the anchor of setup
\* is the one of every state up to the first reset.
C13_SetupStartOfWindow ==
    (after_setup /\ reset_log = <<>>) =>
        /\ kind = "Hour" =>
               /\ minute(unwrap(last_reset)) = 0
               /\ second(unwrap(last_reset)) = 0
               /\ unwrap(last_reset) \div HOUR = start \div HOUR
        /\ kind = "Day" =>
               /\ hour(unwrap(last_reset)) = 0
               /\ minute(unwrap(last_reset)) = 0
               /\ second(unwrap(last_reset)) = 0
               /\ unwrap(last_reset) \div DAY = start \div DAY

\* C14 as stated: last_reset is None before setup and Some in every state
\* after setup, for every configuration, the one without a duration flag
\* included.
C14_Original ==
    /\ pc = "setup" => last_reset = None
    /\ after_setup => is_some(last_reset)

\* C14 amended: last_reset is None before setup; in every state after setup it
\* is Some for every configuration that selects a kind, and None for the
\* configuration without a flag.
C14_AnchorAfterSetup ==
    /\ pc = "setup" => last_reset = None
    /\ after_setup => (is_some(last_reset) <=> cfg # NoFlags)

\* C14 witness: a run without a flag whose maybe_reset_since_zero has been
\* called, and which still has no anchor
C14_Witness ==
    /\ cfg = NoFlags
    /\ pc = "frame"
    /\ is_some(last_call)
    /\ unwrap(last_call).after = None
    /\ last_reset = None

\* C15: in every state after setup, for every kind and every start time,
\* last_reset is not later than the wall clock now (a clock that does not go
\* backwards): after the truncation of setup and after every reset.
C15_AnchorNotInFuture ==
    is_some(last_reset) => unwrap(last_reset) <= clk

\* C15 witness: a bar whose setup truncated the anchor has just been reset, so
\* that the anchor is the wall clock itself
C15_Witness ==
    /\ kind \in {"Minute", "Hour", "Day"}
    /\ Len(reset_log) >= 1
    /\ pc = "frame"
    /\ last_reset = Some(clk)
    /\ unwrap(unwrap(last_call).before) < start

\* C16: for Minute, the ratio the loop computes with current_time = now + 1 s
\* and hands to the render is 0 at display second :00 of the window of the
\* anchor, 30/60 at :30 and 59/60 at :59; once the displayed time is in a later
\* minute than the anchor (the new minute has started and the reset has not
\* fired yet) it is 1.
C16_MinuteLoopRatio ==
    (kind = "Minute" /\ pc \in {"render", "poll"}) =>
        LET shown == data_now(uidata)
            anchor == unwrap(last_reset)
            r == unwrap(loop_ratio)
        IN  /\ (shown \div MIN = anchor \div MIN /\ second(shown) \in {0, 30, 59}) =>
                   ~r.nan /\ FEq(r, F(second(shown), 60))
            /\ shown \div MIN > anchor \div MIN => is_one(r)

\* the date and time strings on the terminal
on_screen == [fdate |-> unwrap(screen).fdate, ftime |-> unwrap(screen).ftime]

\* C17: an iteration goes to the render exactly when the strings of its update
\* differ from those of the update before (changed()); a render that completes
\* draws strings that were not on the terminal, and the displayed time never
\* goes back, so at most one iteration per displayed second renders; and once
\* the render step of an iteration is over, the terminal shows the strings of
\* its update: every change of the strings is rendered.
C17_RenderIffChanged ==
    /\ [][pc = "frame" => (pc' = "render" <=> upd_log'[2] # upd_log'[1])]_vars
    /\ [][(pc = "render" /\ pc' = "poll" /\ is_some(screen)) =>
              on_screen' # on_screen]_vars
    /\ [][(pc = "frame" /\ upd_log[2] # NoStrings) =>
              data_now(uidata') >= data_now(uidata)]_vars
    /\ []((pc \in {"poll", "frame"} /\ upd_log[2] # NoStrings) =>
              (is_some(screen) /\ on_screen = upd_log[2]))

\* C17 witness: an iteration inside a displayed second that was already drawn
\* did not render, although maybe_reset_since_zero had run and the ratio it
\* computed is not the one on the terminal
C17_Witness ==
    /\ pc = "poll"
    /\ upd_log[1] = upd_log[2]
    /\ is_some(screen)
    /\ on_screen = upd_log[2]
    /\ is_some(last_call)
    /\ is_some(loop_ratio)
    /\ unwrap(screen).timebarw # None
    /\ unwrap(unwrap(screen).timebarw).ratio # unwrap(loop_ratio)

\* C18: when notify() fails in the render in which a Countup reaches 100%,
\* that render still completes (the frame is drawn, with the alert style) and
\* sets did_notify; afterwards the run is never ended by a panic, did_notify
\* stays set, and no later render calls notify() again.
C18_NotifyFailureIgnored ==
    /\ [][(pc = "render" /\ notify_count' # notify_count /\ notify_failed') =>
              /\ did_notify'
              /\ pc' = "poll"
              /\ is_some(screen')
              /\ on_screen' = upd_log[2]
              /\ unwrap(unwrap(screen').timebarw).alert]_vars
    /\ [](notify_failed => (kind = "Countup" /\ did_notify /\ notify_count = 1 /\ pc # "panicked"))
    /\ [][notify_failed => (notify_count' = notify_count /\ notify_failed')]_vars

\* C18 witness: notify() failed, and since then maybe_reset_since_zero has run
\* and a frame of a later second, again at 100%, has been rendered
C18_Witness ==
    /\ notify_failed
    /\ pc = "poll"
    /\ did_notify
    /\ is_some(last_call)
    /\ full(prev_ratio)
    /\ full(loop_ratio)
    /\ changed(uidata)
    /\ is_some(screen)
    /\ on_screen = upd_log[2]
    /\ unwrap(unwrap(screen).timebarw).alert

\* the positions inside the loop of run
InLoop == {"frame", "render", "poll"}

\* C19: the loop is left only from the poll step, on a key event q, Esc or
\* Ctrl+C, and then without a call of maybe_reset_since_zero in that iteration;
\* no tick, reset, notification or state of the time bar ends it (a draw, poll
\* or read that returns an I/O error is not counted as the loop's doing).
C19_OnlyExitChord ==
    [][(pc \in InLoop /\ pc' \notin InLoop /\ pc' \notin {"draw_failed", "poll_failed"}) =>
           /\ pc = "poll"
           /\ pc' = "done"
           /\ is_some(exit_ev')
           /\ is_exit(unwrap(exit_ev'))
           /\ unwrap(exit_ev').code \in {"q", "Esc", "c"}
           /\ UNCHANGED <<last_reset, last_call, last_tick, reset_log>>]_vars

\* C20: for Timer, the ratio Data exposes to the render is 0 in every state,
\* whatever ratios the updates stored and however long the run has lasted, and
\* 0 is the ratio of every time bar drawn.
C20_TimerRatioZero ==
    kind = "Timer" =>
        /\ is_some(data_timebar_ratio(uidata))
        /\ is_zero(unwrap(data_timebar_ratio(uidata)))
        /\ is_some(screen) =>
               /\ is_some(unwrap(screen).timebarw)
               /\ is_zero(unwrap(unwrap(screen).timebarw).ratio)

\* C20 witness: a Timer run of more than a second: the update stored the ratio
\* 1.0, and the bar drawn for that update shows 0
C20_Witness ==
    /\ kind = "Timer"
    /\ pc = "poll"
    /\ is_some(last_call)
    /\ full(loop_ratio)
    /\ changed(uidata)
    /\ is_some(screen)
    /\ on_screen = upd_log[2]
    /\ is_zero(unwrap(unwrap(screen).timebarw).ratio)

\* C21: as_secs returns 60 for Minute, 3600 for Hour, 86400 for Day, n for
\* Custom(n) and for Countup(n), and 1 for Timer.
C21_AsSecs ==
    pc = "secs_done" =>
        LET len == unwrap(fn_in)
            secs == unwrap(fn_out)
        IN  /\ len.tag = "Minute" => secs = 60
            /\ len.tag = "Hour" => secs = 3600
            /\ len.tag = "Day" => secs = 86400
            /\ len.tag \in {"Custom", "Countup"} => secs = len.n
            /\ len.tag = "Timer" => secs = 1

\* C21 witness: as_secs was applied to a Countup that carries seconds
C21_Witness ==
    /\ pc = "secs_done"
    /\ unwrap(fn_in).tag = "Countup"
    /\ unwrap(fn_in).n = MaxSecs
    /\ fn_out = Some(MaxSecs)

\* C22: whenever timebar_ratio has divided, for every kind timebar_len makes
\* of a configuration (a Custom or Countup of a parsed duration of less than a
\* second included), the divisor as_secs() was not zero.
C22_DivisorNonZero ==
    (pc = "ratio_done" /\ is_some(timebar_len(cfg))) =>
        as_secs(unwrap(timebar_len(cfg))) # 0

\* C23: when the truncation of now fails in setup, the run ends there: the
\* loop is never entered, no update, ratio, render or maybe_reset_since_zero
\* takes place and the run stays ended; and no state inside the loop has a
\* configured kind without an anchor.
C23_SetupAborts ==
    /\ [][(pc = "setup" /\ pc' = "setup_panicked") => (truncates(cfg) /\ UNCHANGED last_reset)]_vars
    /\ [][pc = "setup_panicked" => pc' = "setup_panicked"]_vars
    /\ [](pc = "setup_panicked" =>
              /\ last_reset = None
              /\ last_call = None
              /\ screen = None
              /\ upd_log = <<NoStrings, NoStrings>>
              /\ uidata.timebar_ratio[uidata.idx] = None)
    /\ []((pc \in {"frame", "render", "poll"} /\ is_some(timebar_len(cfg))) =>
              is_some(last_reset))

\* C23 witness: the run of a Day bar ended in setup, on a start of the day
\* that does not exist
C23_Witness ==
    /\ pc = "setup_panicked"
    /\ kind = "Day"
    /\ last_reset = None
    /\ clk = start

\* C24: the end of the window the label shows is the anchor (as the label
\* shows it, to the second) with its seconds set to 0, plus as_secs(), for
\* Minute, Hour and Day, and the anchor with its seconds kept plus as_secs() for
\* Custom and Countup; for Minute, Hour and Day it is the next minute, hour
\* and day boundary after the anchor.
C24_LabelUntil ==
    (pc = "render" /\ is_some(timebar_len(cfg)) /\ kind # "Timer") =>
        LET len == unwrap(timebar_len(cfg))
            anchor == unwrap(last_reset)
            shown == round_subsecs(anchor)
            window == IF kind = "Minute" THEN MIN ELSE IF kind = "Hour" THEN HOUR ELSE DAY
        IN  /\ kind \in {"Custom", "Countup"} =>
                   until(len, anchor) = format_time(shown + as_secs(len) * SEC)
            /\ kind \in {"Minute", "Hour", "Day"} =>
                   /\ until(len, anchor) = format_time(with_second(shown, 0) + as_secs(len) * SEC)
                   /\ until(len, anchor) = format_time((anchor \div window + 1) * window)

\* C25: for Countup(n) with n >= 1, did_notify is not true before n full
\* seconds of wall-clock time have elapsed since the anchor set at start.
C25_NotifyNotEarly ==
    (kind = "Countup" /\ as_secs(unwrap(timebar_len(cfg))) >= 1 /\ did_notify) =>
        clk - unwrap(last_reset) >= as_secs(unwrap(timebar_len(cfg))) * SEC

\* C26: for Countup(n) with n >= 1, while the loop keeps iterating and the
\* wall clock advances, did_notify eventually becomes true.
C26_EventuallyNotified ==
    (kind = "Countup" /\ as_secs(unwrap(timebar_len(cfg))) >= 1) ~> did_notify

\* C26 witness: a Countup of two seconds notified in a render that followed
\* calls of maybe_reset_since_zero, the frame before it not yet at 100%
C26_Witness ==
    /\ kind = "Countup"
    /\ as_secs(unwrap(timebar_len(cfg))) = 2
    /\ did_notify
    /\ is_some(last_call)
    /\ pc = "poll"
    /\ ~full(prev_ratio)
    /\ full(loop_ratio)

\* C27: in every state of the run loop after setup, when timebar_len() is
\* Some, last_reset is Some (the unwraps in timebar_ratio and
\* maybe_reset_since_zero succeed) and the snapshot a frame has written, the
\* one the render step unwraps, holds Some ratio; when timebar_len() is None
\* no anchor and no ratio ever exist, no reset happens and no bar is drawn.
C27_UnwrapsSucceed ==
    pc \in InLoop =>
        IF is_some(timebar_len(cfg))
        THEN /\ is_some(last_reset)
             /\ pc \in {"render", "poll"} => is_some(loop_ratio)
             /\ pc = "render" => is_some(data_timebar_ratio(uidata))
        ELSE /\ last_reset = None
             /\ loop_ratio = None
             /\ prev_ratio = None
             /\ reset_log = <<>>
             /\ is_some(last_call) => unwrap(last_call).after = None
             /\ is_some(screen) => unwrap(screen).timebarw = None

\* C27 witness: a render step of a configured kind, its snapshot computed from
\* an anchor that maybe_reset_since_zero has read and replaced
C27_Witness ==
    /\ is_some(timebar_len(cfg))
    /\ pc = "render"
    /\ is_some(loop_ratio)
    /\ is_some(last_call)
    /\ reset_log # <<>>
    /\ is_some(last_reset)

====
